---- MODULE Spec2Model ----
(***************************************************************************)
(* Model of the DeepResearch V2 orchestration engine:                      *)
(*   backend/app/service/deep_research_v2/graph.py    (orchestrator)       *)
(*   backend/app/service/deep_research_v2/service.py  (streaming facade)   *)
(*   backend/app/service/deep_research_v2/agents/*.py (agents)             *)
(*   backend/app/service/checkpoint_service.py        (checkpoint store)   *)
(*   backend/app/router/research_router.py            (cancel flag, resume)*)
(* One session is modelled.  The orchestrator is a coroutine whose         *)
(* position is pc; the agent it awaits is an asyncio task (task) that      *)
(* writes to the message queue (queue) while the drain loop reads it.      *)
(***************************************************************************)
EXTENDS Integers, Sequences, FiniteSets, TLC

VARIABLES
    pc,          \* position of the request / orchestrator coroutine
    via,         \* entry point used: "none", "stream", "resume_endpoint", "graph"
    resume,      \* the resume argument that reaches DeepResearchGraph.run
    argMaxIter,  \* the max_iterations argument the caller gave
    state,       \* the ResearchState dict (the fields the orchestrator reads)
    loaded,      \* the checkpoint state loaded by run(), or NoCheckpoint
    out,         \* the frames / events the caller has received so far
    cancelFlag,  \* the Redis key research:cancel:<session_id>
    checkpoint,  \* the research_checkpoints row of the session, or NoCheckpoint
    stage,       \* the phase step the orchestrator is in
    agent,       \* the agent run_agent_with_streaming was called with
    task,        \* the asyncio task of agent.process(state)
    tstep,       \* position of the task: 0 created, 1 at an await, 2 finished
    queue,       \* contents of message_queue
    reviews,     \* history: number of Critic reviews started in this run
    lastVerdict, \* history: outcome of the last Critic review
    cancelledAgents, \* history: agents whose task the drain loop cancelled
    routed,      \* history: phases the Critic routed a review to
    scout,       \* the Searcher: facts and hypotheses of the state, its fingerprints
    critic,      \* the Critic's routing of one review: the review and its outcome
    wizard       \* the Analyst: one call of CodeWizard.process

\* the variables of the orchestrated run
runVars == <<pc, via, resume, argMaxIter, state, loaded, out, cancelFlag, checkpoint,
             stage, agent, task, tstep, queue, reviews, lastVerdict,
             cancelledAgents, routed>>

\* the variables of the agents' own operations
agentVars == <<scout, critic, wizard>>

vars == <<runVars, agentVars>>

----------------------------------------------------------------------------
(* Bounds of the model *)

\* largest max_iterations value a caller passes or a stored state holds
MaxIterArg == 2
\* cap of the history counter reviews (above every bound a run can have)
MaxReviews == 4

(* Program constants *)

\* create_initial_state: max_iterations=3
DefaultMaxIterations == 3
\* REVIEW_PROMPT: "quality_score >= 7" is asked of the LLM for verdict pass
PassScore == 7
\* config.research.max_iterations (config/llm_config.py); the spec gives
\* "configured, typically 2-3"
ConfigMaxIterations == 3

----------------------------------------------------------------------------
(* state.py *)

\* class ResearchPhase(str, Enum): the members that exist
ResearchPhase ==
    [INIT |-> "init", PLANNING |-> "planning", RESEARCHING |-> "researching",
     ANALYZING |-> "analyzing", WRITING |-> "writing", REVIEWING |-> "reviewing",
     REVISING |-> "revising", COMPLETED |-> "completed"]

\* ResearchPhase.<name> raises AttributeError when the enum has no such member
AttributeError(name) == name \notin DOMAIN ResearchPhase

PhaseValues == {ResearchPhase[n] : n \in DOMAIN ResearchPhase}

\* create_initial_state(query, session_id); message_queue and user_id are the
\* dict keys _message_queue and _user_id ("absent" = key not in the dict)
create_initial_state ==
    [phase |-> ResearchPhase.INIT, iteration |-> 0,
     max_iterations |-> DefaultMaxIterations, quality_score |-> 0,
     message_queue |-> "absent", user_id |-> "absent"]

----------------------------------------------------------------------------
(* checkpoint_service.py *)

\* no row of research_checkpoints has this session_id
NoCheckpoint ==
    [status |-> "none", phase |-> "", iteration |-> 0, error_message |-> "",
     state_json |-> create_initial_state]

\* json.dumps(value, default=str): default=str turns every object json cannot
\* encode into a string, so the call does not raise for the queue object
DumpsWithDefaultStr(value) == TRUE

\* json.dumps(value) as the JSONB column applies it at flush: TypeError for an
\* asyncio.Queue object
JsonSerializable(clean) == clean.message_queue # "object"

\* CheckpointService._clean_state_for_storage: a value is replaced by str(value)
\* only when the trial json.dumps(value, default=str) raises
clean_state_for_storage(st) ==
    [st EXCEPT !.message_queue = IF DumpsWithDefaultStr(@) THEN @ ELSE "str"]

\* CheckpointService.save_checkpoint: the row after the call and the returned
\* id (ok = an id was returned).  dbOk: the database executes the statements.
save_checkpoint(row, st, dbOk) ==
    LET clean == clean_state_for_storage(st) IN
    IF dbOk /\ JsonSerializable(clean)
    THEN [row |-> [status |-> "running", phase |-> st.phase,
                   iteration |-> st.iteration,
                   error_message |-> row.error_message,
                   state_json |-> clean],
          ok |-> TRUE]
    ELSE [row |-> row, ok |-> FALSE]

\* CheckpointService.load_checkpoint followed by the truth test of
\* DeepResearchGraph._load_checkpoint
load_checkpoint(row, dbOk) ==
    IF dbOk /\ row.status # "none"
    THEN [ok |-> TRUE, state |-> row.state_json]
    ELSE [ok |-> FALSE, state |-> create_initial_state]

\* CheckpointService.update_status
\* update_status catches every exception of the query and of the commit and
\* returns False: none reaches the caller.
update_status_raises_Uncaught(dbOk) == ~dbOk

update_status_raises(dbOk) == FALSE

update_status(row, status, error_message, dbOk) ==
    IF dbOk /\ row.status # "none"
    THEN [row EXCEPT !.status = status,
                     !.error_message = IF error_message # "" THEN error_message ELSE @]
    ELSE row

\* DeepResearchGraph._save_checkpoint: True iff the store returned an id
SaveCheckpoint(row, st, dbOk) == save_checkpoint(row, st, dbOk)

----------------------------------------------------------------------------
(* graph.py: DeepResearchGraph.__init__ *)

\* Python's "a or b" on integers: b when a is falsy (0, and None likewise)
Or(a, b) == IF a # 0 THEN a ELSE b

\* self.max_iterations = max_iterations or config.research.max_iterations
graph_max_iterations(max_iterations) == Or(max_iterations, ConfigMaxIterations)

----------------------------------------------------------------------------
(* agents/scout.py and agents/architect.py: facts, fingerprints, hypotheses *)

\* most facts state["facts"] holds in the model
MaxFacts == 2
\* most extracted_facts one LLM analysis returns
MaxExtract == 2

\* fact texts and the source URLs they come with
Contents == {"c1", "c2", "c3"}
SourceUrls == {"u1", "u2"}

\* DeepScout._compute_fact_fingerprint: the md5 prefix of the first 3 numbers
\* and first 5 keywords of the text; c1 and c2 differ only outside them
compute_fact_fingerprint(content) ==
    CASE content \in {"c1", "c2"} -> "fA"
      [] OTHER -> "fB"

\* ChiefArchitect._parse_flat_result: ids h_<i> of the hypotheses returned
HypothesisIds == {"h_1", "h_2"}

\* an element of analysis["extracted_facts"]: what the LLM returned;
\* related_hypothesis is an id the LLM names, or "null"
ExtractedFacts ==
    [content : Contents, source_url : SourceUrls,
     related_hypothesis : HypothesisIds \cup {"null"}]

\* DeepScout.__init__ (fact_fingerprints = {}) and create_initial_state
\* (facts = [], hypotheses = [])
\* most entries one evidence list of a hypothesis holds in the model
MaxEvidence == 2
\* most hypothesis_evidence entries of one analysis in the model
MaxEvidenceBatch == 2

\* ChiefArchitect._convert_flat_to_outline: a hypothesis starts unverified
\* with empty evidence lists (the lists are modelled by their lengths)
NoEvidence == [evidence_for |-> 0, evidence_against |-> 0, status |-> "unverified"]

\* an element of analysis["hypothesis_evidence"]
EvidenceTypes == {"supports", "refutes", "neutral"}

HypothesisEvidence == [hypothesis_id : HypothesisIds, evidence_type : EvidenceTypes]

\* DeepScout._update_hypothesis_status, the body of "if h.get('id') == h_id"
hypothesis_after(h, ev_type) ==
    IF ev_type = "supports"
    THEN [h EXCEPT !.evidence_for = @ + 1,
                   !.status = IF h.evidence_for + 1 >= 2 THEN "supported" ELSE @]
    ELSE IF ev_type = "refutes"
    THEN [h EXCEPT !.evidence_against = @ + 1,
                   !.status = IF h.evidence_against + 1 >= 2 THEN "refuted" ELSE @]
    ELSE [h EXCEPT !.status = IF @ = "unverified" THEN "partially_supported" ELSE @]

\* DeepScout._update_hypothesis_status: evidence for an id that is not among
\* the hypotheses of the state is skipped
RECURSIVE update_hypothesis_status(_, _, _)
update_hypothesis_status(hypotheses, evidence, batch) ==
    IF batch = <<>> THEN evidence
    ELSE LET ev == Head(batch)
             e1 == IF ev.hypothesis_id \in hypotheses
                   THEN [evidence EXCEPT ![ev.hypothesis_id] =
                            hypothesis_after(@, ev.evidence_type)]
                   ELSE evidence
         IN update_hypothesis_status(hypotheses, e1, Tail(batch))

\* DeepScout._execute_deep_search, lines 804-813: a stored fact that names a
\* hypothesis and its support adds to the evidence list; the status is not
\* touched
deep_search_evidence(hypotheses, evidence, h_id, hypothesis_support) ==
    IF h_id \notin hypotheses THEN evidence
    ELSE IF hypothesis_support = "supports"
    THEN [evidence EXCEPT ![h_id].evidence_for = @ + 1]
    ELSE IF hypothesis_support = "refutes"
    THEN [evidence EXCEPT ![h_id].evidence_against = @ + 1]
    ELSE evidence

\* most pending_search_queries the state holds in the model
MaxPending == 6
\* "for query in pending_queries[:5]"
MaxSupplementary == 5

Queries == {"q1", "q2"}

\* the part of the state a supplementary run reads and writes, the queries
\* searched (history) and how process ended
NoRerun ==
    [phase |-> "writing", pending_search_queries |-> <<>>, searched |-> <<>>,
     outcome |-> "none"]

\* DeepScout.process called with phase re_researching: line 174 evaluates
\* ResearchPhase.RE_RESEARCHING before anything else; with the member it
\* runs _supplementary_research, which searches pending_queries[:5], clears
\* the list and sets phase WRITING (its facts are stored by store_facts)
scout_process_rerun(r) ==
    IF AttributeError("RE_RESEARCHING")
    THEN [r EXCEPT !.outcome = "raised"]
    ELSE [r EXCEPT !.phase = ResearchPhase.WRITING,
                   !.searched = SubSeq(r.pending_search_queries, 1,
                                       IF Len(r.pending_search_queries) < MaxSupplementary
                                       THEN Len(r.pending_search_queries)
                                       ELSE MaxSupplementary),
                   !.pending_search_queries = <<>>,
                   !.outcome = "returned"]

\* names of entities, most entities of one analysis, most edges of the graph
\* and most nodes of a graph the Analyst builds, in the model
GraphNames == {"a", "b", "c"}
MaxEntities == 2
MaxEdges == 2
MaxBuiltNodes == 2

\* state["knowledge_graph"] as create_initial_state and the Architect set it;
\* a node is its name, an edge its source, target and relation (the
\* Searcher's edges have no target)
EmptyGraph == [nodes |-> <<>>, edges |-> <<>>]

\* the dict {} that parse_json_response returns for an answer it cannot parse
EmptyDict == [nodes |-> <<"{}">>, edges |-> <<>>]

\* the truth value Python gives a dict: False for {} only
Truthy(d) == d # EmptyDict

GraphEdge(source, target, relation) ==
    [source |-> source, target |-> target, relation |-> relation]

\* entities_discovered of one analysis: a name (possibly empty) and relations
Entities == [name : GraphNames \cup {""}, relations : {<<>>, <<"r">>}]

EntityLists == UNION {[1..n -> Entities] : n \in 1..MaxEntities}

NodeNames(graph) == {graph.nodes[i] : i \in DOMAIN graph.nodes}

EdgeSet(graph) == {graph.edges[i] : i \in DOMAIN graph.edges}

\* the edges the loop "for relation in entity.get('relations', [])" appends
RECURSIVE relation_edges(_, _)
relation_edges(name, relations) ==
    IF relations = <<>> THEN <<>>
    ELSE <<GraphEdge(name, "", Head(relations))>>
         \o relation_edges(name, Tail(relations))

\* DeepScout._update_knowledge_graph: an entity without a name or with the
\* name of a node is skipped, else its node and its edges are appended
RECURSIVE update_knowledge_graph(_, _)
update_knowledge_graph(graph, entities) ==
    IF entities = <<>> THEN graph
    ELSE LET entity == Head(entities)
             name == entity.name
             next == IF name = "" \/ name \in NodeNames(graph)
                     THEN graph
                     ELSE [nodes |-> Append(graph.nodes, name),
                           edges |-> graph.edges
                                     \o relation_edges(name, entity.relations)]
         IN update_knowledge_graph(next, Tail(entities))

\* what DataAnalyst._build_knowledge_graph can return: the parsed answer of the
\* model, {} when the answer does not parse, the empty graph without facts
BuiltGraphs ==
    {EmptyDict} \cup
    [nodes : UNION {[1..n -> GraphNames] : n \in 0..MaxBuiltNodes},
     edges : {<<>>, <<GraphEdge("a", "b", "r")>>}]

\* DataAnalyst._analyze_data, lines 283-284
analyze_data_graph(graph, built) == IF Truthy(built) THEN built ELSE graph

\* most search_queries of a section in the model
MaxSectionQueries == 2
\* most deep-search queries (source tracing and follow-up together) that the
\* analysis of a section asks for in the model
MaxDeepQueries == 2

\* one section task as a producer of events: its position, the index of the
\* query it is at, the number of its queries, the deep searches still to do
\* and the events it has queued (search_progress, search_results and
\* observation only)
NoSearch ==
    [pc |-> "idle", k |-> 0, n |-> 0, found |-> FALSE, deep |-> <<>>,
     events |-> <<>>]

SearchEvent(type, query, section) ==
    [type |-> type, query |-> query, section |-> section]

\* _research_section, lines 511-538: the two events of a query with results
query_events(query, section) ==
    << SearchEvent("search_progress", query, section),
       SearchEvent("search_results", query, section) >>

\* _execute_deep_search, lines 745-769: the event of a deep-search query with
\* results
deep_query_events(query, section) ==
    << SearchEvent("search_results", query, section) >>

\* the queries of the deep searches an analysis asks for: source tracing
\* first, then follow-up
DeepQueryLists ==
    UNION {[1..n -> {"trace_query", "follow_up_query"}] : n \in 0..MaxDeepQueries}

\* "for section in pending_sections[:3]": the section tasks of one gather
MaxSections == 3

\* a section task that does not exist
NoSection == [pc |-> "none", added_facts |-> 0, duplicate_facts |-> 0]

NewScout ==
    [facts |-> <<>>, hypotheses |-> {}, fact_fingerprints |-> <<>>,
     sections |-> [i \in 1..MaxSections |-> NoSection],
     evidence |-> [h \in HypothesisIds |-> NoEvidence],
     rerun |-> NoRerun,
     search |-> NoSearch,
     knowledge_graph |-> EmptyGraph]

\* a variant of is_duplicate_fact that answers "new" for a known fingerprint
\* whatever the URL
is_duplicate_fact_AnyUrl(fingerprints, content, source_url) ==
    LET fingerprint == compute_fact_fingerprint(content) IN
    IF fingerprint \in DOMAIN fingerprints
    THEN [duplicate |-> FALSE, fingerprints |-> fingerprints]
    ELSE [duplicate |-> FALSE,
          fingerprints |-> (fingerprint :> source_url) @@ fingerprints]

\* DeepScout._is_duplicate_fact: the answer and the dict after the call
\* (the dict is a function from the fingerprints it holds to URLs)
is_duplicate_fact(fingerprints, content, source_url) ==
    LET fingerprint == compute_fact_fingerprint(content) IN
    IF fingerprint \in DOMAIN fingerprints
    THEN IF fingerprints[fingerprint] = source_url
         THEN [duplicate |-> FALSE, fingerprints |-> fingerprints]
         ELSE [duplicate |-> TRUE, fingerprints |-> fingerprints]
    ELSE [duplicate |-> FALSE,
          fingerprints |-> (fingerprint :> source_url) @@ fingerprints]

\* the fact_entry the three operations build: only _research_section copies
\* related_hypothesis ("absent" = the entry has no such key)
fact_entry(fact, withHypothesis) ==
    [content |-> fact.content, source_url |-> fact.source_url,
     related_hypothesis |->
        IF withHypothesis THEN fact.related_hypothesis ELSE "absent"]

\* "for fact in analysis.get('extracted_facts', [])": the dedup test and the
\* append, in _research_section (565-584), _execute_deep_search (785-801)
\* and _supplementary_research (285-300)
RECURSIVE store_facts(_, _, _)
store_facts(sc, extracted, withHypothesis) ==
    IF extracted = <<>> THEN sc
    ELSE LET fact == Head(extracted)
             d == is_duplicate_fact(sc.fact_fingerprints, fact.content,
                                    fact.source_url)
             sc1 == [sc EXCEPT
                        !.fact_fingerprints = d.fingerprints,
                        !.facts = IF d.duplicate THEN @
                                  ELSE Append(@, fact_entry(fact, withHypothesis))]
         IN store_facts(sc1, Tail(extracted), withHypothesis)

----------------------------------------------------------------------------
(* agents/critic.py: _analyze_issues_for_routing and the routing branch *)

\* most issues a review holds in the model
MaxIssues == 2
\* "for aspect in missing_aspects[:3]"
MaxAspects == 3
\* "list(set(search_queries))[:5]"
MaxQueries == 5

\* research_needed_types
research_needed_types == {"missing_source", "incomplete", "outdated"}

\* an element of review_result["issues"] ("" = no search_query given)
Issues ==
    [issue_type : {"missing_source", "logic_error"},
     severity : {"major", "minor"},
     requires_new_search : BOOLEAN,
     search_query : {"", "q1", "q2"}]

\* review_result["missing_aspects"]
AspectLists == {<<>>, <<"a1">>}

\* review_result of a non-pass review: its issues and missing_aspects
RoutingReviews ==
    [issues : UNION {[1..n -> Issues] : n \in 0..MaxIssues},
     missing_aspects : AspectLists]

Min(a, b) == IF a <= b THEN a ELSE b

Max(a, b) == IF a >= b THEN a ELSE b

\* lst[:n]
Prefix(lst, n) == SubSeq(lst, 1, Min(n, Len(lst)))

Range(lst) == {lst[i] : i \in DOMAIN lst}

\* the issues counted by research_issues_count: a research type and a
\* severity critical or major
IsResearchIssue(issue) ==
    /\ issue.issue_type \in research_needed_types
    /\ issue.severity \in {"critical", "major"}

\* CriticMaster._analyze_issues_for_routing: should_research and the set of
\* distinct search_queries before the cut to 5
analyze_issues_for_routing(review) ==
    LET issues == review.issues
        missing_aspects == review.missing_aspects
        counted == {i \in DOMAIN issues : IsResearchIssue(issues[i])}
        research_issues_count == Cardinality(counted)
        fromIssues == {issues[i].search_query :
                          i \in {j \in counted : /\ issues[j].requires_new_search
                                                 /\ issues[j].search_query # ""}}
        fromAspects == Range(Prefix(missing_aspects, MaxAspects))
        nQueries == Cardinality({j \in counted : /\ issues[j].requires_new_search
                                                 /\ issues[j].search_query # ""})
                    + Len(Prefix(missing_aspects, MaxAspects))
        total_critical_major ==
            Cardinality({i \in DOMAIN issues :
                            issues[i].severity \in {"critical", "major"}})
    IN [should_research |->
            /\ nQueries > 0
            /\ (research_issues_count > 0 \/ Len(missing_aspects) > 0)
            /\ \/ total_critical_major = 0
               \/ 10 * research_issues_count > 3 * Max(total_critical_major, 1),
        search_queries |-> fromIssues \cup fromAspects]

\* list(set(search_queries))[:5]: the lists are told apart by their elements;
\* of more than 5 distinct queries any 5 may be kept (set order)
CutQueries(queries) ==
    {q \in SUBSET queries : Cardinality(q) = Min(MaxQueries, Cardinality(queries))}

\* no review has been routed
NoRouting ==
    [reviewed |-> FALSE, review |-> [issues |-> <<>>, missing_aspects |-> <<>>],
     phase |-> ResearchPhase.REVIEWING, pending_search_queries |-> {},
     raised |-> FALSE]

\* CriticMaster.process, lines 213-229, for a non-pass review with
\* iteration < max_iterations: the phase and pending_search_queries after it
RoutingOutcomes(review) ==
    LET needs_new_search == analyze_issues_for_routing(review) IN
    IF needs_new_search.should_research
    THEN IF AttributeError("RE_RESEARCHING")
         THEN {[reviewed |-> TRUE, review |-> review,
                phase |-> ResearchPhase.REVIEWING,
                pending_search_queries |-> {}, raised |-> TRUE]}
         ELSE {[reviewed |-> TRUE, review |-> review,
                phase |-> ResearchPhase["RE_RESEARCHING"],
                pending_search_queries |-> q, raised |-> FALSE] :
                   q \in CutQueries(needs_new_search.search_queries)}
    ELSE {[reviewed |-> TRUE, review |-> review,
           phase |-> ResearchPhase.REVISING,
           pending_search_queries |-> {}, raised |-> FALSE]}

----------------------------------------------------------------------------
(* agents/wizard.py: the sandbox and the self-correction loop *)

\* max_retries of _execute_with_self_correction
MaxRetries == 3
\* process analyses only with at least this many data points
MinDataPoints == 3
\* _generate_charts handles chart_sections[:2]
MaxChartSections == 2

ForbiddenError == "Code contains forbidden operations"
MaxRetriesError == "Max retries exceeded"

\* A piece of generated code: whether FORBIDDEN_PATTERNS matches it, and what
\* exec does with it: it raises, it succeeds without a figure and without
\* stderr output, or it succeeds and leaves a figure.
Codes == [forbidden : BOOLEAN, outcome : {"raises", "silent", "chart"}]
\* the LLM answer without usable code
NoCode == [forbidden |-> FALSE, outcome |-> "none"]

is_code_safe(code) == ~code.forbidden

\* executed is history: the code reached exec().
execute_in_sandbox(code) ==
    CASE code.outcome = "raises" ->
            [success |-> FALSE, error |-> "exception", charts |-> 0, executed |-> TRUE]
      [] code.outcome = "silent" ->
            [success |-> TRUE, error |-> "None", charts |-> 0, executed |-> TRUE]
      [] OTHER ->
            [success |-> TRUE, error |-> "None", charts |-> 1, executed |-> TRUE]

execute_code(code) ==
    IF ~is_code_safe(code)
    THEN [success |-> FALSE, error |-> ForbiddenError, charts |-> 0, executed |-> FALSE]
    ELSE execute_in_sandbox(code)

NewWizard ==
    [ pc |-> "idle", current_code |-> NoCode, retries |-> 0, section |-> 0,
      code_executions |-> <<>>, charts |-> <<>>,
      executions |-> 0, fixes |-> 0, error |-> "None",
      exec_forbidden |-> FALSE, rejected |-> FALSE, succeeded |-> FALSE ]

\* `if retries >= max_retries` after a failed execution
RetriesExhausted_OffByOne(retries) == retries > MaxRetries

RetriesExhausted(retries) == retries >= MaxRetries

RECURSIVE Repeat(_, _)
Repeat(e, n) == IF n = 0 THEN <<>> ELSE <<e>> \o Repeat(e, n - 1)

\* _analyze_data after _execute_with_self_correction returned: the execution
\* record and one chart per captured figure.
record_execution(w, error, charts) ==
    [w EXCEPT !.pc = "analyzed",
              !.code_executions = Append(@, [error |-> error, retries |-> w.retries,
                                             charts |-> charts]),
              !.charts = @ \o Repeat("analysis", charts)]

\* the bookkeeping of one _execute_code call
executed_code(w, code, r) ==
    [w EXCEPT !.error = r.error,
              !.exec_forbidden = @ \/ (r.executed /\ code.forbidden)]

----------------------------------------------------------------------------
(* Initial state: no request yet, nothing stored *)

Init ==
    /\ pc = "idle"
    /\ via = "none"
    /\ resume = FALSE
    /\ argMaxIter = 0
    /\ state = create_initial_state
    /\ loaded = [ok |-> FALSE, phase |-> ""]
    /\ out = <<>>
    /\ cancelFlag = FALSE
    /\ checkpoint = NoCheckpoint
    /\ stage = "none"
    /\ agent = "none"
    /\ task = "none"
    /\ tstep = 0
    /\ queue = <<>>
    /\ reviews = 0
    /\ lastVerdict = "none"
    /\ cancelledAgents = {}
    /\ routed = {}
    /\ scout = NewScout
    /\ critic = NoRouting
    /\ wizard = NewWizard

\* phases a state can be stored with, and the stored states the direct use of
\* the checkpoint store draws from
StoredPhases == {ResearchPhase.PLANNING, ResearchPhase.WRITING}

StoredStates ==
    [phase : StoredPhases, iteration : {0}, max_iterations : 1..MaxIterArg,
     quality_score : {0}, message_queue : {"absent", "object"},
     user_id : {"absent"}]

\* CheckpointService.save_checkpoint called on the store before the request
\* (an earlier process of the same deployment)
SaveCheckpointDirect ==
    /\ UNCHANGED agentVars
    /\ pc = "idle"
    /\ \E st \in StoredStates, dbOk \in BOOLEAN :
          checkpoint' = save_checkpoint(checkpoint, st, dbOk).row
    /\ UNCHANGED <<pc, via, resume, argMaxIter, state, loaded, out, cancelFlag,
                   stage, agent, task, tstep, queue, reviews, lastVerdict,
                   cancelledAgents, routed>>

\* research_router.cancel_research: cache.set(cancel_key, {"cancelled": True})
cancel_research ==
    /\ UNCHANGED agentVars
    /\ pc # "done"
    /\ cancelFlag' = TRUE
    /\ UNCHANGED <<pc, via, resume, argMaxIter, state, loaded, out, checkpoint,
                   stage, agent, task, tstep, queue, reviews, lastVerdict,
                   cancelledAgents, routed>>

----------------------------------------------------------------------------
(* research_router.py and service.py: how a request reaches the orchestrator *)

\* stream_research -> DeepResearchV2Service(max_iterations=m).research(query):
\* research() calls self.graph.run(query, session_id), without resume
stream_research ==
    /\ UNCHANGED agentVars
    /\ pc = "idle"
    /\ \E m \in 0..MaxIterArg : argMaxIter' = m
    /\ via' = "stream"
    /\ resume' = FALSE
    /\ pc' = "run"
    /\ UNCHANGED <<state, loaded, out, cancelFlag, checkpoint, stage, agent, task,
                   tstep, queue, reviews, lastVerdict, cancelledAgents, routed>>

\* resume_research: with a stored checkpoint that is not completed it calls
\* service_v2.research(query=..., session_id=..., resume=True); research() has
\* no parameter resume, the call raises TypeError inside generate_sse, which
\* answers with one error frame and ends the stream
resume_research ==
    /\ UNCHANGED agentVars
    /\ pc = "idle"
    /\ checkpoint.status \notin {"none", "completed"}
    /\ via' = "resume_endpoint"
    /\ out' = <<"error">>
    /\ pc' = "done"
    /\ UNCHANGED <<resume, argMaxIter, state, loaded, cancelFlag, checkpoint, stage,
                   agent, task, tstep, queue, reviews, lastVerdict,
                   cancelledAgents, routed>>

\* DeepResearchGraph(max_iterations=m).run(query, session_id, resume=r) called
\* on the orchestrator itself
graph_run ==
    /\ UNCHANGED agentVars
    /\ pc = "idle"
    /\ \E m \in 0..MaxIterArg : argMaxIter' = m
    /\ \E r \in BOOLEAN : resume' = r
    /\ via' = "graph"
    /\ pc' = "run"
    /\ UNCHANGED <<state, loaded, out, cancelFlag, checkpoint, stage, agent, task,
                   tstep, queue, reviews, lastVerdict, cancelledAgents, routed>>

----------------------------------------------------------------------------
(* graph.py: DeepResearchGraph.run *)

\* the state run() hands to _run_simplified and the first event it yields
RunState(row, res, maxIter, dbOk) ==
    LET l == IF res THEN load_checkpoint(row, dbOk)
             ELSE [ok |-> FALSE, state |-> create_initial_state] IN
    IF l.ok
    THEN [state |-> [l.state EXCEPT !.user_id = "set"],
          event |-> "research_resumed", loaded |-> TRUE]
    ELSE [state |-> [create_initial_state EXCEPT
                        !.max_iterations = graph_max_iterations(maxIter),
                        !.user_id = "set"],
          event |-> "research_start", loaded |-> FALSE]

run ==
    /\ UNCHANGED agentVars
    /\ pc = "run"
    /\ \E dbOk \in BOOLEAN :
         LET r == RunState(checkpoint, resume, argMaxIter, dbOk) IN
         /\ state' = r.state
         /\ out' = Append(out, r.event)
         /\ loaded' = [ok |-> r.loaded,
                       phase |-> IF r.loaded THEN r.state.phase ELSE ""]
    /\ pc' = "run_simplified"
    /\ UNCHANGED <<via, resume, argMaxIter, cancelFlag, checkpoint, stage, agent,
                   task, tstep, queue, reviews, lastVerdict, cancelledAgents,
                   routed>>

\* _run_simplified, lines 366-375: the queue is put into the state and the
\* cancel flag of the session is cleared
run_simplified_entry ==
    /\ UNCHANGED agentVars
    /\ pc = "run_simplified"
    /\ state' = [state EXCEPT !.message_queue = "object"]
    /\ queue' = <<>>
    /\ cancelFlag' = FALSE
    /\ stage' = "plan"
    /\ pc' = "phase_check"
    /\ UNCHANGED <<via, resume, argMaxIter, loaded, out, checkpoint, agent, task,
                   tstep, reviews, lastVerdict, cancelledAgents, routed>>

\* the four straight-line phases of _run_simplified
Stages == {"plan", "research", "analyze", "write"}

StagePhase(s) ==
    CASE s = "plan" -> ResearchPhase.INIT
      [] s = "research" -> ResearchPhase.RESEARCHING
      [] s = "analyze" -> ResearchPhase.ANALYZING
      [] s = "write" -> ResearchPhase.WRITING

StageEvent(s) ==
    CASE s = "plan" -> "phase:planning"
      [] s = "research" -> "phase:researching"
      [] s = "analyze" -> "phase:analyzing"
      [] s = "write" -> "phase:writing"

StageAgent(s) ==
    CASE s = "plan" -> "ChiefArchitect"
      [] s = "research" -> "DeepScout"
      [] s = "analyze" -> "DataAnalyst"
      [] s = "write" -> "LeadWriter"

NextStage(s) ==
    CASE s = "plan" -> "research"
      [] s = "research" -> "analyze"
      [] s = "analyze" -> "write"
      [] s = "write" -> "review"

\* check_cancelled(): is_research_cancelled(session_id)
check_cancelled == cancelFlag

\* a variant of CancelledTarget without the "return" after the
\* research_cancelled event: the orchestrator goes on with the phase
CancelledTarget_NoReturn == "agent_pre"

\* "yield research_cancelled; return": the generator ends, its finally
\* clause runs
CancelledTarget == "finally"

\* "if await check_cancelled(): yield research_cancelled; return", else the
\* phase event and the assignment of state["phase"]
PhaseCheck ==
    /\ UNCHANGED agentVars
    /\ pc = "phase_check"
    /\ stage \in Stages
    /\ IF check_cancelled
       THEN /\ out' = Append(out, "research_cancelled")
            /\ pc' = CancelledTarget
            /\ UNCHANGED <<state, agent>>
       ELSE /\ out' = Append(out, StageEvent(stage))
            /\ state' = [state EXCEPT !.phase = StagePhase(stage)]
            /\ agent' = StageAgent(stage)
            /\ pc' = "agent_pre"
    /\ UNCHANGED <<via, resume, argMaxIter, loaded, cancelFlag, checkpoint, stage,
                   task, tstep, queue, reviews, lastVerdict, cancelledAgents,
                   routed>>

----------------------------------------------------------------------------
(* agents/*.py: what one agent.process(state) task does *)

Agents == {"ChiefArchitect", "DeepScout", "DataAnalyst", "CodeWizard",
           "LeadWriter", "CriticMaster"}

\* agents whose process() reaches its first await: the planner, the two
\* analysts and the writer
StepAgents == {"ChiefArchitect", "DataAnalyst", "CodeWizard", "LeadWriter"}

\* the messages add_message queues before the first await of process():
\*   ChiefArchitect._initial_planning and LeadWriter._write_report:
\*     research_step, thought;  DataAnalyst._analyze_data: research_step;
\*   CodeWizard.process: thought
BeginMsgs(a) ==
    CASE a = "ChiefArchitect" -> <<"research_step", "thought">>
      [] a = "DataAnalyst" -> <<"research_step">>
      [] a = "CodeWizard" -> <<"thought">>
      [] a = "LeadWriter" -> <<"research_step", "thought">>

\* the messages queued after the last await, before process() returns (the
\* messages an agent queues between two awaits, such as section_content or
\* code_result, are not modelled: no branch of the orchestrator reads them).
\* parsed: the LLM reply could be used (ChiefArchitect returns early, with no
\* message, when it could not).
EndMsgs(a, parsed) ==
    CASE a = "ChiefArchitect" ->
            IF parsed THEN <<"outline", "research_step">> ELSE <<>>
      [] a = "DataAnalyst" -> <<"research_step">>
      [] a = "CodeWizard" -> <<>>
      [] a = "LeadWriter" -> <<"report_draft", "research_step">>

\* the state when process() returns:
\*   ChiefArchitect.process / _initial_planning: phase PLANNING at the end,
\*     early return with the state untouched when no result was parsed
\*   LeadWriter.process: _write_report (phase WRITING) and _revise_report
\*     (phase REVISING) both end with phase REVIEWING
\*   DataAnalyst.process, CodeWizard.process: phase is left alone
AgentReturnState(a, st, parsed) ==
    CASE a = "ChiefArchitect" ->
            IF st.phase = ResearchPhase.INIT /\ parsed
            THEN [st EXCEPT !.phase = ResearchPhase.PLANNING] ELSE st
      [] a = "LeadWriter" ->
            IF st.phase \in {ResearchPhase.WRITING, ResearchPhase.REVISING}
            THEN [st EXCEPT !.phase = ResearchPhase.REVIEWING] ELSE st
      [] OTHER -> st

Verdicts == {"pass", "needs_revision", "major_issues"}

\* overall_assessment.quality_score of a review (the prompt asks for 1-10):
\* one value below and one above the score the prompt requires for "pass"
QualityScores == {PassScore - 1, PassScore + 1}

\* what _review_content returns, reduced to what process() branches on:
\* parsed (a non-empty dict), the verdict and whether
\* _analyze_issues_for_routing answers should_research
Reviews ==
    [parsed : BOOLEAN, verdict : Verdicts, should_research : BOOLEAN,
     quality_score : QualityScores]

\* a variant of CriticDecide whose routing to revising adds 2 to iteration;
\* the iteration properties must reject it
CriticDecide_AddsTwo(st, review) ==
    IF ~review.parsed
    THEN [state |-> st, msgs |-> <<>>, raised |-> FALSE]
    ELSE
      \* line 175: state["quality_score"] = the score of the review
      LET sq == [st EXCEPT !.quality_score = review.quality_score] IN
      LET msgs == <<"review">> IN
      IF review.verdict = "pass"
      THEN [state |-> [sq EXCEPT !.phase = ResearchPhase.COMPLETED],
            msgs |-> msgs, raised |-> FALSE]
      ELSE IF sq.iteration >= sq.max_iterations
      THEN [state |-> [sq EXCEPT !.phase = ResearchPhase.COMPLETED],
            msgs |-> Append(msgs, "warning"), raised |-> FALSE]
      ELSE IF review.should_research
      THEN [state |-> sq, msgs |-> msgs, raised |-> TRUE]
      ELSE [state |-> [sq EXCEPT !.phase = ResearchPhase.REVISING,
                                 !.iteration = @ + 2],
            msgs |-> msgs, raised |-> FALSE]

\* CriticMaster.process, lines 167-231, after _review_content has returned:
\* the new state, the messages queued and whether the coroutine raised
CriticDecide(st, review) ==
    IF ~review.parsed
    THEN [state |-> st, msgs |-> <<>>, raised |-> FALSE]
    ELSE
      \* line 175: state["quality_score"] = the score of the review
      LET sq == [st EXCEPT !.quality_score = review.quality_score] IN
      \* the "review" message (the critic_feedback messages that may follow
      \* it are queued in the same step and are not told apart from it)
      LET msgs == <<"review">> IN
      IF review.verdict = "pass"
      THEN [state |-> [sq EXCEPT !.phase = ResearchPhase.COMPLETED],
            msgs |-> msgs, raised |-> FALSE]
      ELSE IF sq.iteration >= sq.max_iterations
      THEN [state |-> [sq EXCEPT !.phase = ResearchPhase.COMPLETED],
            msgs |-> Append(msgs, "warning"), raised |-> FALSE]
      ELSE IF review.should_research
      THEN \* state["phase"] = ResearchPhase.RE_RESEARCHING.value
           IF AttributeError("RE_RESEARCHING")
           THEN [state |-> sq, msgs |-> msgs, raised |-> TRUE]
           ELSE [state |-> [sq EXCEPT !.phase = ResearchPhase["RE_RESEARCHING"],
                                      !.iteration = @ + 1],
                 msgs |-> Append(msgs, "thought"), raised |-> FALSE]
      ELSE [state |-> [sq EXCEPT !.phase = ResearchPhase.REVISING,
                                 !.iteration = @ + 1],
            msgs |-> msgs, raised |-> FALSE]

\* process() of a planner / analyst / writer task runs to its first await
AgentBegin ==
    /\ UNCHANGED agentVars
    /\ task = "running"
    /\ agent \in StepAgents
    /\ tstep = 0
    /\ queue' = queue \o BeginMsgs(agent)
    /\ tstep' = 1
    /\ UNCHANGED <<pc, via, resume, argMaxIter, state, loaded, out, cancelFlag,
                   checkpoint, stage, agent, task, reviews, lastVerdict,
                   cancelledAgents, routed>>

\* process() of a planner / analyst / writer task returns
AgentReturn ==
    /\ UNCHANGED agentVars
    /\ task = "running"
    /\ agent \in StepAgents
    /\ tstep = 1
    /\ \E parsed \in BOOLEAN :
         /\ state' = AgentReturnState(agent, state, parsed)
         /\ queue' = queue \o EndMsgs(agent, parsed)
    /\ task' = "done"
    /\ tstep' = 2
    /\ UNCHANGED <<pc, via, resume, argMaxIter, loaded, out, cancelFlag, checkpoint,
                   stage, agent, reviews, lastVerdict, cancelledAgents, routed>>

\* process() raises: at an await, BaseAgent.call_llm re-raises a failed LLM
\* call; DeepScout.process evaluates ResearchPhase.RE_RESEARCHING on its
\* first line
AgentRaise ==
    /\ UNCHANGED agentVars
    /\ task = "running"
    /\ \/ agent \in StepAgents \cup {"CriticMaster"} /\ tstep = 1
       \/ agent = "DeepScout" /\ tstep = 0 /\ AttributeError("RE_RESEARCHING")
    /\ task' = "raised"
    /\ tstep' = 2
    /\ lastVerdict' = IF agent = "CriticMaster" THEN "raised" ELSE lastVerdict
    /\ UNCHANGED <<pc, via, resume, argMaxIter, state, loaded, out, cancelFlag,
                   checkpoint, stage, agent, queue, reviews, cancelledAgents,
                   routed>>

\* CriticMaster.process up to "await self._review_content(state)"
CriticThought ==
    /\ UNCHANGED agentVars
    /\ task = "running"
    /\ agent = "CriticMaster"
    /\ tstep = 0
    /\ IF state.phase # ResearchPhase.REVIEWING
       THEN task' = "done" /\ tstep' = 2 /\ UNCHANGED queue
       ELSE /\ queue' = Append(queue, "thought")
            /\ tstep' = 1
            /\ task' = task
    /\ UNCHANGED <<pc, via, resume, argMaxIter, state, loaded, out, cancelFlag,
                   checkpoint, stage, agent, reviews, lastVerdict,
                   cancelledAgents, routed>>

\* CriticMaster.process from the return of _review_content to its end
CriticFinish ==
    /\ UNCHANGED agentVars
    /\ task = "running"
    /\ agent = "CriticMaster"
    /\ tstep = 1
    /\ \E review \in Reviews :
         LET r == CriticDecide(state, review) IN
         /\ state' = r.state
         /\ queue' = queue \o r.msgs
         /\ task' = IF r.raised THEN "raised" ELSE "done"
         /\ lastVerdict' = IF review.parsed THEN review.verdict ELSE "unparsed"
         /\ routed' = IF r.raised THEN routed \cup {"re_researching"}
                      ELSE IF r.state.phase \notin {state.phase, ResearchPhase.COMPLETED}
                      THEN routed \cup {r.state.phase}
                      ELSE routed
    /\ tstep' = 2
    /\ UNCHANGED <<pc, via, resume, argMaxIter, loaded, out, cancelFlag, checkpoint,
                   stage, agent, reviews, cancelledAgents>>

----------------------------------------------------------------------------
(* graph.py: run_agent_with_streaming *)

\* lines 385-395: return at once when cancelled, else create the task
AgentPre ==
    /\ UNCHANGED agentVars
    /\ pc = "agent_pre"
    /\ IF check_cancelled
       THEN /\ pc' = "agent_post"
            /\ UNCHANGED <<task, tstep, reviews>>
       ELSE /\ task' = "running"
            /\ tstep' = 0
            /\ reviews' = IF agent = "CriticMaster" THEN reviews + 1 ELSE reviews
            /\ pc' = "drain_top"
    /\ UNCHANGED <<via, resume, argMaxIter, state, loaded, out, cancelFlag,
                   checkpoint, stage, agent, queue, lastVerdict, cancelledAgents,
                   routed>>

\* a variant of cancel_task that returns from the drain loop without
\* cancelling the task
cancel_task_Forgotten(t) == t

\* lines 400-405: task.cancel() and "await task", which ends when the task
\* has ended
cancel_task(t) == "cancelled"

\* a variant of Flush that forgets the messages still queued when the task
\* is done
Flush_None(delivered, remaining) == delivered

\* lines 427-435: "while not message_queue.empty(): yield get_nowait()"
Flush(delivered, remaining) == delivered \o remaining

\* "while not task.done()": lines 397-406 when the task still runs (cancel it
\* when the flag is set), lines 421-437 when it is done (await it, swallow its
\* exception, flush the queue)
DrainTop ==
    /\ UNCHANGED agentVars
    /\ pc = "drain_top"
    /\ IF task \in {"done", "raised"}
       THEN /\ out' = Flush(out, queue)
            /\ queue' = <<>>
            /\ pc' = "agent_post"
            /\ UNCHANGED <<task, cancelledAgents>>
       ELSE IF check_cancelled
       THEN /\ task' = cancel_task(task)
            /\ cancelledAgents' = cancelledAgents \cup {agent}
            /\ pc' = "agent_post"
            /\ UNCHANGED <<out, queue>>
       ELSE /\ pc' = "drain_get"
            /\ UNCHANGED <<out, queue, task, cancelledAgents>>
    /\ UNCHANGED <<via, resume, argMaxIter, state, loaded, cancelFlag, checkpoint,
                   stage, agent, tstep, reviews, lastVerdict, routed>>

\* lines 408-416: asyncio.wait_for(message_queue.get(), timeout=0.5); the
\* message is yielded, or the wait times out
DrainGet ==
    /\ UNCHANGED agentVars
    /\ pc = "drain_get"
    /\ IF queue # <<>>
       THEN /\ out' = Append(out, Head(queue))
            /\ queue' = Tail(queue)
       ELSE UNCHANGED <<out, queue>>
    /\ pc' = "drain_top"
    /\ UNCHANGED <<via, resume, argMaxIter, state, loaded, cancelFlag, checkpoint,
                   stage, agent, task, tstep, reviews, lastVerdict,
                   cancelledAgents, routed>>

----------------------------------------------------------------------------
(* graph.py: _run_simplified, after an agent *)

\* state["messages"] = [] and what follows the agent in the source text: the
\* second analyst, the checkpoint save, or the tests after the Critic
AgentPost ==
    /\ UNCHANGED agentVars
    /\ pc = "agent_post"
    /\ task' = "none"
    /\ IF stage = "analyze" /\ agent = "DataAnalyst"
       THEN agent' = "CodeWizard" /\ pc' = "agent_pre"
       ELSE IF stage = "review"
       THEN agent' = agent /\ pc' = "after_critic"
       ELSE agent' = agent /\ pc' = "save"
    /\ UNCHANGED <<via, resume, argMaxIter, state, loaded, out, cancelFlag,
                   checkpoint, stage, tstep, queue, reviews, lastVerdict,
                   cancelledAgents, routed>>

\* save_checkpoint_async and "if cp_event: yield cp_event"
save_checkpoint_async ==
    /\ UNCHANGED agentVars
    /\ pc = "save"
    /\ \E dbOk \in BOOLEAN :
         LET r == SaveCheckpoint(checkpoint, state, dbOk) IN
         /\ checkpoint' = r.row
         /\ out' = IF r.ok THEN Append(out, "checkpoint_saved") ELSE out
    /\ stage' = NextStage(stage)
    /\ pc' = IF stage = "write" THEN "loop_guard" ELSE "phase_check"
    /\ UNCHANGED <<via, resume, argMaxIter, state, loaded, cancelFlag, agent, task,
                   tstep, queue, reviews, lastVerdict, cancelledAgents, routed>>

\* "while state[iteration] < state[max_iterations]" with lines 510-514
LoopContinues(st) == st.iteration < st.max_iterations

LoopGuard ==
    /\ UNCHANGED agentVars
    /\ pc = "loop_guard"
    /\ IF LoopContinues(state)
       THEN IF check_cancelled
            THEN /\ out' = Append(out, "research_cancelled")
                 /\ pc' = CancelledTarget
                 /\ UNCHANGED <<state, agent, stage>>
            ELSE /\ reviews < MaxReviews
                 /\ out' = Append(out, "phase:reviewing")
                 /\ state' = [state EXCEPT !.phase = ResearchPhase.REVIEWING]
                 /\ agent' = "CriticMaster"
                 /\ stage' = "review"
                 /\ pc' = "agent_pre"
       ELSE /\ pc' = "complete"
            /\ UNCHANGED <<out, state, agent, stage>>
    /\ UNCHANGED <<via, resume, argMaxIter, loaded, cancelFlag, checkpoint, task,
                   tstep, queue, reviews, lastVerdict, cancelledAgents, routed>>

\* a variant of AfterCriticTarget that goes round the loop whenever the phase
\* is not completed (no exception, no "else: break"); the termination
\* property must reject it
AfterCriticTarget_NoBreak(st) ==
    IF st.phase = ResearchPhase.COMPLETED THEN "complete" ELSE "loop_guard"

\* where control goes after the Critic, lines 519-546: "break" to the
\* completion code, the exception handler, or the rest of the loop body.  The
\* test of line 522 evaluates ResearchPhase.RE_RESEARCHING, so lines 523-546
\* are entered only if that member exists.
AfterCriticTarget(st) ==
    IF st.phase = ResearchPhase.COMPLETED THEN "complete"
    ELSE IF AttributeError("RE_RESEARCHING") THEN "except"
    ELSE IF st.phase = ResearchPhase["RE_RESEARCHING"] THEN "re_research"
    ELSE IF st.phase = ResearchPhase.REVISING THEN "revise"
    ELSE "complete"

AfterCritic ==
    /\ UNCHANGED agentVars
    /\ pc = "after_critic"
    /\ pc' = AfterCriticTarget(state)
    /\ UNCHANGED <<via, resume, argMaxIter, state, loaded, out, cancelFlag,
                   checkpoint, stage, agent, task, tstep, queue, reviews,
                   lastVerdict, cancelledAgents, routed>>

\* lines 557-570
Complete ==
    /\ UNCHANGED agentVars
    /\ pc = "complete"
    /\ state' = [state EXCEPT !.phase = ResearchPhase.COMPLETED]
    /\ \E dbOk \in BOOLEAN :
         IF update_status_raises(dbOk)
         THEN /\ checkpoint' = checkpoint
              /\ out' = out
              /\ pc' = "except"
         ELSE /\ checkpoint' = update_status(checkpoint, "completed", "", dbOk)
              /\ out' = Append(out, "research_complete")
              /\ pc' = "finally"
    /\ UNCHANGED <<via, resume, argMaxIter, loaded, cancelFlag, stage, agent, task,
                   tstep, queue, reviews, lastVerdict, cancelledAgents, routed>>

\* lines 572-577: except Exception
Except ==
    /\ UNCHANGED agentVars
    /\ pc = "except"
    /\ \E dbOk \in BOOLEAN :
         IF update_status_raises(dbOk)
         THEN /\ checkpoint' = checkpoint
              /\ out' = out
         ELSE /\ checkpoint' = update_status(checkpoint, "failed", "RE_RESEARCHING", dbOk)
              /\ out' = Append(out, "error")
    /\ pc' = "finally"
    /\ UNCHANGED <<via, resume, argMaxIter, state, loaded, cancelFlag, stage, agent,
                   task, tstep, queue, reviews, lastVerdict, cancelledAgents,
                   routed>>

\* lines 578-580, and the end of DeepResearchV2Service.research: the frame
\* "data: [DONE]" follows the events of graph.run
Finally ==
    /\ UNCHANGED agentVars
    /\ pc = "finally"
    /\ state' = [state EXCEPT !.message_queue = "None"]
    /\ out' = IF via = "stream" THEN Append(out, "[DONE]") ELSE out
    /\ pc' = "done"
    /\ UNCHANGED <<via, resume, argMaxIter, loaded, cancelFlag, checkpoint, stage,
                   agent, task, tstep, queue, reviews, lastVerdict,
                   cancelledAgents, routed>>

----------------------------------------------------------------------------
(* Specifications *)

Orchestrator ==
    \/ run \/ run_simplified_entry \/ PhaseCheck \/ AgentPre \/ DrainTop
    \/ DrainGet \/ AgentPost \/ save_checkpoint_async \/ LoopGuard
    \/ AfterCritic \/ Complete \/ Except \/ Finally

AgentTask ==
    \/ AgentBegin \/ AgentReturn \/ AgentRaise \/ CriticThought \/ CriticFinish

Request == stream_research \/ resume_research \/ graph_run

Environment == SaveCheckpointDirect \/ cancel_research

Next == Request \/ Orchestrator \/ AgentTask \/ Environment

Spec == Init /\ [][Next]_vars

\* the event loop keeps running the orchestrator coroutine and the agent task
\* (every agent call returns or raises)
FairSpec == Spec /\ WF_vars(Orchestrator) /\ WF_vars(AgentTask)

----------------------------------------------------------------------------
(* The Searcher's operations, called on the agent one after another *)

\* the analyses an LLM call may return: 1..MaxExtract extracted facts
Analyses == UNION {[1..n -> ExtractedFacts] : n \in 1..MaxExtract}

\* ChiefArchitect._initial_planning, line 254: state["hypotheses"] is what
\* the plan holds; planning precedes the Searcher
initial_planning_hypotheses ==
    /\ scout.facts = <<>>
    /\ \E hs \in SUBSET HypothesisIds :
          scout' = [scout EXCEPT !.hypotheses = hs,
                                 !.evidence = [h \in HypothesisIds |-> NoEvidence]]
    /\ UNCHANGED <<runVars, critic, wizard>>

\* DeepScout._research_section with the analysis of one section
research_section ==
    /\ \E extracted \in Analyses :
         /\ Len(scout.facts) + Len(extracted) <= MaxFacts
         /\ scout' = store_facts(scout, extracted, TRUE)
    /\ UNCHANGED <<runVars, critic, wizard>>

\* DeepScout._execute_deep_search with the analysis of one query
execute_deep_search ==
    /\ \E extracted \in Analyses :
         /\ Len(scout.facts) + Len(extracted) <= MaxFacts
         /\ scout' = store_facts(scout, extracted, FALSE)
    /\ UNCHANGED <<runVars, critic, wizard>>

\* DeepScout._supplementary_research with the analysis of one pending query
supplementary_research ==
    /\ \E extracted \in Analyses :
         /\ Len(scout.facts) + Len(extracted) <= MaxFacts
         /\ scout' = store_facts(scout, extracted, FALSE)
    /\ UNCHANGED <<runVars, critic, wizard>>

ScoutNext ==
    \/ initial_planning_hypotheses \/ research_section
    \/ execute_deep_search \/ supplementary_research

ScoutSpec == Init /\ [][ScoutNext]_vars

----------------------------------------------------------------------------
(* The section tasks of DeepScout.process, interleaved at their awaits *)

\* the facts of the analysis of a section: related_hypothesis left out
SectionFacts ==
    [content : Contents, source_url : SourceUrls, related_hypothesis : {"null"}]

\* what _analyze_search_results returns to a section task: up to MaxExtract
\* extracted facts (none at all when the analysis failed)
SectionAnalyses == UNION {[1..n -> SectionFacts] : n \in 0..MaxExtract}

\* process, lines 208-213: one _research_section coroutine for each of the
\* first MaxSections pending sections, run by asyncio.gather; each runs to
\* its first await, _execute_search
process_gather ==
    /\ \A i \in 1..MaxSections : scout.sections[i].pc = "none"
    /\ \E n \in 1..MaxSections :
          scout' = [scout EXCEPT !.sections =
                       [i \in 1..MaxSections |->
                           IF i <= n THEN [NoSection EXCEPT !.pc = "search"]
                           ELSE NoSection]]
    /\ UNCHANGED <<runVars, critic, wizard>>

\* the searches of section i are back: without results the task returns
\* (lines 540-542), else it awaits _analyze_search_results
section_search(i) ==
    /\ scout.sections[i].pc = "search"
    /\ \E found \in BOOLEAN :
          scout' = [scout EXCEPT !.sections[i].pc =
                                    IF found THEN "analyze" ELSE "done"]
    /\ UNCHANGED <<runVars, critic, wizard>>

\* the analysis of section i is back: lines 556-597 run without an await, the
\* dedup test and the append of every extracted fact with them
section_store(i) ==
    /\ scout.sections[i].pc = "analyze"
    /\ \E extracted \in SectionAnalyses :
          /\ Len(scout.facts) + Len(extracted) <= MaxFacts
          /\ LET sc == store_facts(scout, extracted, TRUE)
                 added == Len(sc.facts) - Len(scout.facts)
             IN scout' = [sc EXCEPT !.sections[i] =
                                      [pc |-> "done", added_facts |-> added,
                                       duplicate_facts |-> Len(extracted) - added]]
    /\ UNCHANGED <<runVars, critic, wizard>>

\* gather returns when every task has returned; process returns
process_gathered ==
    /\ \E i \in 1..MaxSections : scout.sections[i].pc = "done"
    /\ \A i \in 1..MaxSections : scout.sections[i].pc \in {"none", "done"}
    /\ scout' = [scout EXCEPT !.sections = [i \in 1..MaxSections |-> NoSection]]
    /\ UNCHANGED <<runVars, critic, wizard>>

GatherNext ==
    \/ process_gather
    \/ \E i \in 1..MaxSections : section_search(i)
    \/ \E i \in 1..MaxSections : section_store(i)
    \/ process_gathered

GatherSpec == Init /\ [][GatherNext]_vars

----------------------------------------------------------------------------
(* The Searcher's evidence updates, one after another *)

EvidenceBatches == UNION {[1..n -> HypothesisEvidence] : n \in 1..MaxEvidenceBatch}

\* the evidence lists stay within the bound of the model
EvidenceBounded(evidence) ==
    \A h \in HypothesisIds :
        /\ evidence[h].evidence_for <= MaxEvidence
        /\ evidence[h].evidence_against <= MaxEvidence

\* _research_section, lines 619-622, with the hypothesis_evidence of one
\* analysis
research_section_evidence ==
    /\ \E batch \in EvidenceBatches :
          LET e == update_hypothesis_status(scout.hypotheses, scout.evidence, batch)
          IN /\ EvidenceBounded(e)
             /\ scout' = [scout EXCEPT !.evidence = e]
    /\ UNCHANGED <<runVars, critic, wizard>>

\* _execute_deep_search, lines 804-813, for one stored fact
deep_search_fact_evidence ==
    /\ \E h_id \in HypothesisIds, support \in EvidenceTypes :
          LET e == deep_search_evidence(scout.hypotheses, scout.evidence, h_id, support)
          IN /\ EvidenceBounded(e)
             /\ scout' = [scout EXCEPT !.evidence = e]
    /\ UNCHANGED <<runVars, critic, wizard>>

EvidenceNext ==
    \/ initial_planning_hypotheses
    \/ research_section_evidence
    \/ deep_search_fact_evidence

EvidenceSpec == Init /\ [][EvidenceNext]_vars

----------------------------------------------------------------------------
(* The Searcher called for a supplementary run *)

PendingLists == UNION {[1..n -> Queries] : n \in 0..MaxPending}

\* the state a supplementary run starts from: phase re_researching and the
\* pending queries of a review
rerun_requested ==
    /\ \E pending \in PendingLists :
          scout' = [scout EXCEPT !.rerun =
                       [phase |-> "re_researching",
                        pending_search_queries |-> pending,
                        searched |-> <<>>, outcome |-> "none"]]
    /\ UNCHANGED <<runVars, critic, wizard>>

\* DeepScout.process(state) on that state
scout_process ==
    /\ scout.rerun.phase = "re_researching"
    /\ scout.rerun.outcome = "none"
    /\ scout' = [scout EXCEPT !.rerun = scout_process_rerun(@)]
    /\ UNCHANGED <<runVars, critic, wizard>>

RerunNext == rerun_requested \/ scout_process

RerunSpec == Init /\ [][RerunNext]_vars

----------------------------------------------------------------------------
(* The events of one section of a Searcher run *)

SectionQueryName(k) == IF k = 1 THEN "q1" ELSE IF k = 2 THEN "q2" ELSE "q3"

\* _research_section begins: the section has 1..MaxSectionQueries queries
search_begin ==
    /\ scout.search.pc = "idle"
    /\ \E n \in 1..MaxSectionQueries :
          scout' = [scout EXCEPT !.search = [NoSearch EXCEPT !.pc = "query",
                                                             !.k = 1, !.n = n]]
    /\ UNCHANGED <<runVars, critic, wizard>>

\* "results = await self._execute_search(query)" is back for query k; after
\* the last query the task returns when nothing was found
search_query ==
    /\ scout.search.pc = "query"
    /\ \E results \in BOOLEAN :
          LET q == scout.search
              found == q.found \/ results
              last == q.k = q.n
          IN scout' = [scout EXCEPT !.search =
                [q EXCEPT !.events = IF results
                                     THEN @ \o query_events(SectionQueryName(q.k), "section")
                                     ELSE @,
                          !.found = found,
                          !.k = IF last THEN @ ELSE @ + 1,
                          !.pc = IF ~last THEN "query"
                                 ELSE IF found THEN "analyze" ELSE "done"]]
    /\ UNCHANGED <<runVars, critic, wizard>>

\* "analysis = await self._analyze_search_results(...)" is back: without an
\* analysis nothing follows, else the observation and then the deep searches
\* the analysis asks for
search_analyze ==
    /\ scout.search.pc = "analyze"
    /\ \E analysed \in BOOLEAN, deep \in DeepQueryLists :
          scout' = [scout EXCEPT !.search =
                IF ~analysed THEN [@ EXCEPT !.pc = "done"]
                ELSE [@ EXCEPT !.events = Append(@, SearchEvent("observation", "", "section")),
                               !.deep = deep,
                               !.pc = IF deep = <<>> THEN "done" ELSE "deep"]]
    /\ UNCHANGED <<runVars, critic, wizard>>

\* _execute_deep_search: the search of the next deep query is back
search_deep ==
    /\ scout.search.pc = "deep"
    /\ \E results \in BOOLEAN :
          LET q == scout.search IN
          scout' = [scout EXCEPT !.search =
                [q EXCEPT !.events = IF results
                                     THEN @ \o deep_query_events(Head(q.deep), "section")
                                     ELSE @,
                          !.deep = Tail(@),
                          !.pc = IF Len(q.deep) = 1 THEN "done" ELSE "deep"]]
    /\ UNCHANGED <<runVars, critic, wizard>>

\* process, lines 215-230, after gather: _emit_search_results_event queues
\* one more search_results event when the state holds facts
search_end ==
    /\ scout.search.pc = "done"
    /\ \E facts \in BOOLEAN :
          scout' = [scout EXCEPT !.search =
                [@ EXCEPT !.events = IF facts
                                     THEN Append(@, SearchEvent("search_results", "", ""))
                                     ELSE @,
                          !.pc = "returned"]]
    /\ UNCHANGED <<runVars, critic, wizard>>

SearchNext ==
    \/ search_begin \/ search_query \/ search_analyze \/ search_deep \/ search_end

SearchSpec == Init /\ [][SearchNext]_vars

----------------------------------------------------------------------------
(* The knowledge graph under the Searcher's and the Analyst's updates *)

\* _research_section, lines 603-606: "if entities: _update_knowledge_graph"
scout_update_knowledge_graph ==
    /\ \E entities \in EntityLists :
          LET graph == update_knowledge_graph(scout.knowledge_graph, entities) IN
          /\ Len(graph.edges) <= MaxEdges
          /\ scout' = [scout EXCEPT !.knowledge_graph = graph]
    /\ UNCHANGED <<runVars, critic, wizard>>

\* DataAnalyst._analyze_data, lines 276-284
analyze_data ==
    /\ \E built \in BuiltGraphs :
          scout' = [scout EXCEPT !.knowledge_graph = analyze_data_graph(@, built)]
    /\ UNCHANGED <<runVars, critic, wizard>>

GraphNext == scout_update_knowledge_graph \/ analyze_data

GraphSpec == Init /\ [][GraphNext]_vars

----------------------------------------------------------------------------
(* The Critic's routing, applied to one review after another *)

critic_route ==
    /\ \E review \in RoutingReviews : critic' \in RoutingOutcomes(review)
    /\ UNCHANGED <<runVars, scout, wizard>>

CriticNext == critic_route

CriticSpec == Init /\ [][CriticNext]_vars

----------------------------------------------------------------------------
(* The Analyst on its own: one call of CodeWizard.process. *)

\* process up to the first execution: skipped below MinDataPoints, and
\* _analyze_data returns without a record when the LLM gave no usable code.
wizard_process ==
    /\ wizard.pc = "idle"
    /\ \E data_points \in {MinDataPoints - 1, MinDataPoints}, code \in Codes \cup {NoCode} :
          wizard' = IF data_points < MinDataPoints
                    THEN [wizard EXCEPT !.pc = "returned"]
                    ELSE IF code = NoCode
                    THEN [wizard EXCEPT !.pc = "analyzed"]
                    ELSE [wizard EXCEPT !.pc = "exec", !.current_code = code]
    /\ UNCHANGED <<runVars, scout, critic>>

\* one turn of the while loop of _execute_with_self_correction up to the
\* call of _fix_code
self_correction_execute ==
    /\ wizard.pc = "exec"
    /\ LET r == execute_code(wizard.current_code)
           w == [executed_code(wizard, wizard.current_code, r) EXCEPT
                    !.executions = @ + 1,
                    !.rejected = @ \/ (r.error = ForbiddenError),
                    !.succeeded = r.success]
       IN wizard' = IF r.success
                    THEN record_execution(w, "None", r.charts)
                    ELSE IF RetriesExhausted(w.retries)
                    THEN record_execution(w, r.error, 0)
                    ELSE [w EXCEPT !.pc = "fix"]
    /\ UNCHANGED <<runVars, scout, critic>>

\* _fix_code answered: without fixed_code the loop breaks, else the fixed
\* code is the current code of the next turn
self_correction_fix ==
    /\ wizard.pc = "fix"
    /\ \E fixed \in Codes \cup {NoCode} :
          LET w == [wizard EXCEPT !.fixes = @ + 1]
              n == [w EXCEPT !.current_code = fixed, !.retries = @ + 1]
          IN wizard' = IF fixed = NoCode
                       THEN record_execution(w, MaxRetriesError, 0)
                       ELSE IF n.retries <= MaxRetries
                       THEN [n EXCEPT !.pc = "exec"]
                       ELSE record_execution(n, MaxRetriesError, 0)
    /\ UNCHANGED <<runVars, scout, critic>>

\* one chart section of _generate_charts: one execution, no self-correction.
\* The warning of the else branch slices result['error'], which is None after
\* a successful execution without stderr output.
generate_chart ==
    /\ wizard.pc = "analyzed"
    /\ wizard.section < MaxChartSections
    /\ \E code \in Codes \cup {NoCode} :
          LET s == [wizard EXCEPT !.section = @ + 1]
              r == execute_code(code)
              w == executed_code(s, code, r)
          IN wizard' = IF code = NoCode THEN s
                       ELSE IF r.charts > 0
                       THEN [w EXCEPT !.charts = Append(@, "section")]
                       ELSE IF r.error = "None"
                       THEN [w EXCEPT !.pc = "raised"]
                       ELSE w
    /\ UNCHANGED <<runVars, scout, critic>>

\* the outline has no further chart section: process returns the state
wizard_return ==
    /\ wizard.pc = "analyzed"
    /\ wizard' = [wizard EXCEPT !.pc = "returned"]
    /\ UNCHANGED <<runVars, scout, critic>>

WizardNext ==
    \/ wizard_process
    \/ self_correction_execute
    \/ self_correction_fix
    \/ generate_chart
    \/ wizard_return

WizardSpec == Init /\ [][WizardNext]_vars

----------------------------------------------------------------------------
(* Vocabulary of the properties *)

Count(seq, e) == Cardinality({i \in DOMAIN seq : seq[i] = e})

Last(seq) == seq[Len(seq)]

\* the first position of e in seq, Len(seq) + 1 when e does not occur
FirstIndex(seq, e) ==
    IF \E i \in DOMAIN seq : seq[i] = e
    THEN CHOOSE i \in DOMAIN seq : seq[i] = e /\ \A j \in 1..(i - 1) : seq[j] # e
    ELSE Len(seq) + 1

StartEvents == {"research_start", "research_resumed"}

TerminalEvents == {"research_complete", "research_cancelled", "error"}

NonPass == Verdicts \ {"pass"}

\* a request has been answered completely
Ended == pc = "done"

\* the events of the orchestrator, without the [DONE] frame of the facade
Events == SelectSeq(out, LAMBDA e : e # "[DONE]")

----------------------------------------------------------------------------
(* C1 *)

\* the call went through DeepResearchV2Service.research
FacadeCall == via \in {"stream", "resume_endpoint"}

\* the lifecycle-start events a call may begin with: a resume request with a
\* stored checkpoint begins with research_resumed (research_start when the
\* checkpoint could not be loaded), every other call with research_start
AllowedStart ==
    IF via = "resume_endpoint" THEN StartEvents ELSE {"research_start"}

\* C1: every sequence the streaming facade delivers begins with exactly one
\* lifecycle-start event (research_resumed only for a resume request,
\* research_start otherwise) and ends with exactly one [DONE] frame.
C1_StartAndDone ==
    (Ended /\ FacadeCall) =>
        /\ out # <<>>
        /\ out[1] \in AllowedStart
        /\ Count(out, "research_start") + Count(out, "research_resumed") = 1
        /\ Last(out) = "[DONE]"
        /\ Count(out, "[DONE]") = 1

----------------------------------------------------------------------------
(* C2 *)

\* the run started from create_initial_state and its cancel flag was not set
FreshUncancelled == via \in {"stream", "graph"} /\ ~loaded.ok /\ ~cancelFlag

PhaseOrder ==
    <<"phase:planning", "phase:researching", "phase:analyzing", "phase:writing",
      "phase:reviewing">>

\* the five phase events occur, each first occurrence after the one before
PhasesInOrder ==
    /\ \A i \in DOMAIN PhaseOrder : Count(out, PhaseOrder[i]) >= 1
    /\ \A i \in 1..(Len(PhaseOrder) - 1) :
          FirstIndex(out, PhaseOrder[i]) < FirstIndex(out, PhaseOrder[i + 1])

\* C2: a fresh run that is never cancelled, whatever verdict the Critic
\* returned, has delivered the phase events planning, researching, analyzing,
\* writing, reviewing in this order, ends with research_complete and has
\* delivered no error event.
C2_FreshRunCompletes ==
    (Ended /\ FreshUncancelled /\ lastVerdict \in Verdicts) =>
        /\ PhasesInOrder
        /\ Events # <<>> /\ Last(Events) = "research_complete"
        /\ Count(out, "error") = 0

----------------------------------------------------------------------------
(* C3 *)

\* C3: a run in which the drain loop saw the cancel flag and cancelled the
\* task of an agent (the flag stays set) ends with research_cancelled and
\* does not deliver research_complete.
C3_CancelEndsCancelled ==
    (Ended /\ cancelFlag /\ cancelledAgents # {}) =>
        /\ Events # <<>> /\ Last(Events) = "research_cancelled"
        /\ Count(out, "research_complete") = 0

----------------------------------------------------------------------------
(* C4 *)

\* C4: after a run that ended with research_cancelled the checkpoint row of
\* the session has status failed, with a reason.
C4_CancelMarksFailed ==
    (Ended /\ Count(out, "research_cancelled") > 0) =>
        /\ checkpoint.status = "failed"
        /\ checkpoint.error_message # ""

----------------------------------------------------------------------------
(* C5 *)

\* C5: a run resumed from a checkpoint saved in phase writing delivers no
\* planning and no researching phase event.
C5_ResumeAtSavedPhase ==
    (pc \notin {"idle", "run"} /\ loaded.ok /\ loaded.phase = ResearchPhase.WRITING) =>
        /\ Count(out, "phase:planning") = 0
        /\ Count(out, "phase:researching") = 0

----------------------------------------------------------------------------
(* C6 *)

\* a run is in progress or has ended (the state is the state of the run)
InRun == pc \notin {"idle", "run"}

\* a step of a run that changes iteration is a step in which the Critic, in
\* phase reviewing with a non-pass verdict, routes to revising (routing to
\* re-research would be the other case), and it adds exactly 1
IterationStep ==
    (InRun /\ state'.iteration # state.iteration) =>
        /\ state'.iteration = state.iteration + 1
        /\ agent = "CriticMaster"
        /\ state.phase = ResearchPhase.REVIEWING
        /\ state'.phase = ResearchPhase.REVISING
        /\ lastVerdict' \in NonPass

\* C6: iteration <= max_iterations in every state of a run, and iteration
\* changes only when the Critic routes a non-pass review onward, by exactly 1.
C6_IterationBounded ==
    /\ [](InRun => state.iteration <= state.max_iterations)
    /\ [][IterationStep]_vars

\* the Critic has routed a review to revising and iteration went from 0 to 1
C6_Witness ==
    /\ state.phase = ResearchPhase.REVISING
    /\ state.iteration = 1
    /\ lastVerdict \in NonPass

----------------------------------------------------------------------------
(* C7 *)

\* the caller has received a terminal event (followed by [DONE] on the facade)
EndedWithTerminal ==
    /\ Ended
    /\ Events # <<>>
    /\ Last(Events) \in TerminalEvents

\* C7: a run performs at most max_iterations Critic reviews, and every run
\* that was started ends with a terminal event, whatever the Critic answers.
C7_Terminates ==
    /\ [](InRun => reviews <= state.max_iterations)
    /\ (pc = "run") ~> EndedWithTerminal

\* a run has ended although the review of the Critic could not be parsed
C7_Witness ==
    /\ EndedWithTerminal
    /\ lastVerdict = "unparsed"
    /\ reviews = 1

----------------------------------------------------------------------------
(* C8 *)

\* C8: a run that was not cancelled does not end in phase revising: after
\* the Critic has routed to revising, a reviewing step follows before the
\* run ends.
C8_RevisingIsReviewed ==
    (Ended /\ ~cancelFlag) => state.phase # ResearchPhase.REVISING

----------------------------------------------------------------------------
(* C9 *)

----------------------------------------------------------------------------
(* C10 *)

\* C10: a fresh, uncancelled run whose caller gave max_iterations = 0 uses 0
\* as its bound, enters reviewing once and ends with research_complete,
\* without a revising or re-researching step.
C10_ZeroIterations ==
    (Ended /\ FreshUncancelled /\ argMaxIter = 0) =>
        /\ state.max_iterations = 0
        /\ Count(out, "phase:reviewing") = 1
        /\ routed = {}
        /\ Last(Events) = "research_complete"

----------------------------------------------------------------------------
(* C11 *)

\* C11: at every phase boundary of a running session (the orchestrator is
\* about to save), a save of the state on a working database succeeds, a
\* load after it returns the phase and the iteration of the state, and the
\* phase and iteration columns of the row are those of the stored blob.
C11_RoundTripAtBoundary ==
    pc = "save" =>
        LET r == save_checkpoint(checkpoint, state, TRUE)
            l == load_checkpoint(r.row, TRUE) IN
        /\ r.ok
        /\ l.ok
        /\ l.state.phase = state.phase
        /\ l.state.iteration = state.iteration
        /\ r.row.phase = r.row.state_json.phase
        /\ r.row.iteration = r.row.state_json.iteration

----------------------------------------------------------------------------
(* C12 *)

\* C12: no two facts of state.facts have both the same fingerprint and the
\* same source URL.
C12_NoDuplicateFacts ==
    \A i, j \in DOMAIN scout.facts :
        (i # j) =>
            ~ /\ compute_fact_fingerprint(scout.facts[i].content)
                   = compute_fact_fingerprint(scout.facts[j].content)
              /\ scout.facts[i].source_url = scout.facts[j].source_url

----------------------------------------------------------------------------
(* C13 *)

\* C13: every fact whose related_hypothesis is set names a hypothesis of
\* state.hypotheses.
C13_HypothesisExists ==
    \A i \in DOMAIN scout.facts :
        scout.facts[i].related_hypothesis \notin {"absent", "null"} =>
            scout.facts[i].related_hypothesis \in scout.hypotheses

----------------------------------------------------------------------------
(* C14 *)

\* C14: whenever the Critic has taken the pass branch (verdict pass, phase
\* completed), state.quality_score is at least 7.
C14_PassNeedsScore ==
    (lastVerdict = "pass" /\ state.phase = ResearchPhase.COMPLETED) =>
        state.quality_score >= PassScore

----------------------------------------------------------------------------
(* C15 *)

\* search_queries as the rule states it: the search_query of every issue with
\* requires_new_search = true, plus the first 3 missing_aspects
RuleSearchQueries(review) ==
    {review.issues[i].search_query :
        i \in {j \in DOMAIN review.issues :
                  /\ review.issues[j].requires_new_search
                  /\ review.issues[j].search_query # ""}}
    \cup Range(Prefix(review.missing_aspects, MaxAspects))

\* the routing rule: search_queries non-empty, a research issue or a missing
\* aspect, and no critical/major issue or more than 30% of them research ones
RuleReResearch(review) ==
    LET ric == Cardinality({i \in DOMAIN review.issues :
                               IsResearchIssue(review.issues[i])})
        cm == Cardinality({i \in DOMAIN review.issues :
                              review.issues[i].severity \in {"critical", "major"}})
    IN /\ RuleSearchQueries(review) # {}
       /\ (ric > 0 \/ review.missing_aspects # <<>>)
       /\ (cm = 0 \/ 10 * ric > 3 * cm)

\* C15: after the Critic has routed a non-pass review (iteration below the
\* limit), the phase is re_researching exactly when the routing rule holds
\* and revising otherwise, and pending_search_queries holds the distinct
\* search_queries of the rule, at most 5.
C15_RoutingRule ==
    critic.reviewed =>
        IF RuleReResearch(critic.review)
        THEN /\ critic.phase = "re_researching"
             /\ critic.pending_search_queries \subseteq RuleSearchQueries(critic.review)
             /\ Cardinality(critic.pending_search_queries)
                   = Min(MaxQueries, Cardinality(RuleSearchQueries(critic.review)))
        ELSE critic.phase = ResearchPhase.REVISING

----------------------------------------------------------------------------
(* C16 *)

\* C16: an uncancelled run in which the Critic routed a review to
\* re-research has delivered, after the review, a phase event re_researching,
\* then a phase event writing and a phase event reviewing, and no error event.
C16_ReResearchContinues ==
    (Ended /\ ~cancelFlag /\ "re_researching" \in routed) =>
        /\ Count(out, "error") = 0
        /\ \E i, j, k \in DOMAIN out :
              /\ i < j /\ j < k
              /\ out[i] = "phase:re_researching"
              /\ out[j] \in {"phase:writing", "phase:rewriting"}
              /\ out[k] = "phase:reviewing"

----------------------------------------------------------------------------
(* C17 *)

\* C17: code matching a forbidden pattern never reaches exec, its rejection
\* is not followed by a fix request to the LLM or by a second execution, and
\* no analysis chart is appended.
C17_ForbiddenNotRetried ==
    /\ ~wizard.exec_forbidden
    /\ wizard.pc = "fix" => wizard.error /= ForbiddenError
    /\ wizard.rejected =>
          /\ wizard.fixes = 0
          /\ wizard.executions = 1
          /\ Count(wizard.charts, "analysis") = 0

----------------------------------------------------------------------------
(* C18 *)

\* _analyze_data has returned after a self-correction loop whose last
\* execution failed
AnalysisFailed ==
    /\ wizard.pc \in {"analyzed", "returned", "raised"}
    /\ wizard.executions > 0
    /\ ~wizard.succeeded

FailureRecorded ==
    /\ Len(wizard.code_executions) = 1
    /\ wizard.code_executions[1].error /= "None"
    /\ wizard.code_executions[1].charts = 0
    /\ Count(wizard.charts, "analysis") = 0

----------------------------------------------------------------------------
(* C19 *)

\* C19: whenever the orchestrator of an uncancelled run has finished a phase
\* step, a step of the review loop included, its next position is the
\* checkpoint save.
C19_SaveAfterEveryStep ==
    [][(~cancelFlag /\ pc = "agent_post" /\ pc' \notin {"agent_post", "agent_pre"})
          => pc' = "save"]_vars

----------------------------------------------------------------------------
(* C20 *)

\* every checkpoint save of the run failed and the status update to
\* completed did not reach the row
StoreFailed ==
    /\ Count(out, "checkpoint_saved") = 0
    /\ checkpoint.status # "completed"

\* C20: a run whose review passed and whose checkpoint saves and status
\* update all failed has no error event, and unless it was cancelled it ends
\* with research_complete.
C20_StoreFailureHarmless ==
    (Ended /\ lastVerdict = "pass" /\ StoreFailed) =>
        /\ Count(out, "error") = 0
        /\ ~cancelFlag => (Events # <<>> /\ Last(Events) = "research_complete")

\* C20 witness: an uncancelled run with a stored row whose saves and status
\* update failed has ended with research_complete.
C20_Witness ==
    /\ Ended /\ lastVerdict = "pass" /\ ~cancelFlag
    /\ StoreFailed
    /\ checkpoint.status = "running"
    /\ Last(Events) = "research_complete"

----------------------------------------------------------------------------
(* C21 *)

\* the request reached DeepResearchGraph.run
OrchestratorRun == via \in {"stream", "graph"}

\* positions of the terminal events among the events delivered so far
TerminalIndexes == {i \in DOMAIN Events : Events[i] \in TerminalEvents}

\* C21: a run never has more than one terminal event, a terminal event is
\* the last event of the orchestrator (no phase, agent or checkpoint_saved
\* event follows it), and a run that has ended has exactly one.
C21_OneTerminalEvent ==
    OrchestratorRun =>
        /\ Cardinality(TerminalIndexes) <= 1
        /\ TerminalIndexes \subseteq {Len(Events)}
        /\ Ended => Cardinality(TerminalIndexes) = 1

\* C21 witness: ended runs with each of the three terminal events exist; this
\* one was cancelled after agents had delivered events.
C21_Witness ==
    /\ OrchestratorRun /\ Ended
    /\ Last(Events) = "research_cancelled"
    /\ Count(out, "phase:writing") = 1
    /\ Count(out, "report_draft") = 1

----------------------------------------------------------------------------
(* C22 *)

PhaseEvents ==
    {"phase:planning", "phase:researching", "phase:analyzing", "phase:writing",
     "phase:reviewing"}

IsPrefix(p, q) == Len(p) <= Len(q) /\ SubSeq(q, 1, Len(p)) = p

\* a step of an agent: it only adds to the tail of the queue
Enqueues == out' = out /\ IsPrefix(queue, queue')

\* a step of the drain loop: what was queued moves to the caller unchanged
Delivers == out' \o queue' = out \o queue

\* the orchestrator (or the facade) emits an event of its own; a phase event
\* finds the queue empty
EmitsOwn ==
    /\ queue' = queue
    /\ Len(out') = Len(out) + 1
    /\ IsPrefix(out, out')
    /\ Last(out') \in PhaseEvents => queue = <<>>

\* C22: the events an agent enqueues reach the caller in enqueue order,
\* none lost or duplicated; when the agent's task has finished without being
\* cancelled all of them have been delivered, and a phase event is never
\* emitted while events of an earlier agent are still queued.
C22_InOrderDelivery ==
    /\ []((pc = "agent_post" /\ task \in {"done", "raised"}) => queue = <<>>)
    /\ [][Enqueues \/ Delivers \/ EmitsOwn]_vars

\* C22 witness: the planner has finished and its four events arrived in the
\* order it queued them, after the phase event.
C22_Witness ==
    /\ pc = "agent_post" /\ task = "done" /\ agent = "ChiefArchitect"
    /\ queue = <<>>
    /\ Events = <<"research_start", "phase:planning", "research_step", "thought",
                 "outline", "research_step">>

----------------------------------------------------------------------------
(* C23 *)

\* every stored fact comes from the URL recorded for its fingerprint
FactsMatchRegistry ==
    \A k \in DOMAIN scout.facts :
        LET fingerprint == compute_fact_fingerprint(scout.facts[k].content) IN
        /\ fingerprint \in DOMAIN scout.fact_fingerprints
        /\ scout.fact_fingerprints[fingerprint] = scout.facts[k].source_url

\* the section tasks that moved in a step
Moved == {i \in 1..MaxSections : scout'.sections[i] # scout.sections[i]}

\* C23: a fact whose fingerprint is recorded for a different source URL is
\* never appended to state.facts, however the section tasks interleave, and
\* every step that reads or writes the registry or appends facts is the step
\* of exactly one section task.
C23_DuplicateDropped ==
    /\ []FactsMatchRegistry
    /\ [][(scout'.facts # scout.facts
            \/ scout'.fact_fingerprints # scout.fact_fingerprints)
          => Cardinality(Moved) = 1]_vars

\* C23 witness: of three interleaved section tasks one stored a fact and a
\* later one dropped a fact with the same fingerprint from another URL.
C23_Witness ==
    /\ scout.facts = <<[content |-> "c1", source_url |-> "u1",
                        related_hypothesis |-> "null"]>>
    /\ \A i \in 1..MaxSections : scout.sections[i].pc = "done"
    /\ scout.sections[2].added_facts = 1
    /\ scout.sections[1].duplicate_facts = 1
    /\ scout.sections[3].added_facts + scout.sections[3].duplicate_facts = 0

----------------------------------------------------------------------------
(* C24 *)

\* the status the rule gives a hypothesis with this much evidence
RuleStatus(h) ==
    IF h.evidence_for >= 2 /\ h.evidence_against = 0 THEN "supported"
    ELSE IF h.evidence_against >= 2 /\ h.evidence_for = 0 THEN "refuted"
    ELSE "partially_supported"

\* C24: a hypothesis is supported only with at least 2 evidence_for entries
\* and no evidence_against entry, refuted only with at least 2
\* evidence_against entries and no evidence_for entry, and partially_supported
\* in every other case in which evidence was recorded for it.
C24_StatusFollowsEvidence ==
    \A id \in scout.hypotheses :
        LET h == scout.evidence[id] IN
        /\ h.status \in {"supported", "refuted"} => h.status = RuleStatus(h)
        /\ h.evidence_for + h.evidence_against > 0 => h.status = RuleStatus(h)

----------------------------------------------------------------------------
(* C25 *)

\* C25: when the Searcher was called with phase re_researching it has
\* returned, having searched at most 5 of the pending queries, with
\* pending_search_queries empty and phase writing.
C25_SupplementaryRunHandsOff ==
    scout.rerun.outcome # "none" =>
        /\ scout.rerun.outcome = "returned"
        /\ Len(scout.rerun.searched) <= MaxSupplementary
        /\ scout.rerun.pending_search_queries = <<>>
        /\ scout.rerun.phase = "writing"

----------------------------------------------------------------------------
(* C26 *)

\* C26: an agent task runs only while the orchestrator is in the drain loop
\* of that agent, so the next agent is started only after the task has
\* completed or was cancelled and awaited, and no step of the orchestrator
\* taken while a task runs writes the research state.
C26_OneAgentAtATime ==
    /\ [](task = "running" => pc \in {"drain_top", "drain_get"})
    /\ [][(task = "running" /\ pc' # pc) => state' = state]_vars

\* C26 witness: the second agent of the analysis phase runs, after the task
\* of the first has ended and its events were delivered.
C26_Witness ==
    /\ task = "running" /\ agent = "CodeWizard" /\ pc = "drain_get"
    /\ Count(out, "research_step") = 4

----------------------------------------------------------------------------
(* C27 *)

\* C27: in the events of a Searcher run every search_results event of a query
\* comes after a search_progress event of that query, and every
\* search_results event of a section comes before the observation event of
\* that section.
C27_SearchEventOrder ==
    LET ev == scout.search.events IN
    /\ \A i \in DOMAIN ev :
          (ev[i].type = "search_results" /\ ev[i].query # "") =>
              \E j \in 1..(i - 1) :
                  ev[j].type = "search_progress" /\ ev[j].query = ev[i].query
    /\ \A i, j \in DOMAIN ev :
          (/\ ev[i].type = "search_results" /\ ev[i].section # ""
           /\ ev[j].type = "observation" /\ ev[j].section = ev[i].section)
              => i < j

----------------------------------------------------------------------------
(* C28 *)

\* C28: the state blob of a checkpoint save holds neither the key
\* _message_queue nor the key _user_id: not the blob that a save of the run
\* hands to the store, and not the blob of a stored row.
C28_BlobExcludesTransients ==
    /\ pc = "save" =>
          LET clean == clean_state_for_storage(state) IN
          clean.message_queue = "absent" /\ clean.user_id = "absent"
    /\ checkpoint.status # "none" =>
          /\ checkpoint.state_json.message_queue = "absent"
          /\ checkpoint.state_json.user_id = "absent"

----------------------------------------------------------------------------
(* C29 *)

\* C29: no step of the Searcher or of the Analyst removes a node or an edge
\* from the knowledge graph, and no two nodes of the graph have the same name.
C29_GraphOnlyGrows ==
    /\ [][/\ NodeNames(scout.knowledge_graph) \subseteq NodeNames(scout'.knowledge_graph)
          /\ EdgeSet(scout.knowledge_graph) \subseteq EdgeSet(scout'.knowledge_graph)]_vars
    /\ [](\A i, j \in DOMAIN scout.knowledge_graph.nodes :
              scout.knowledge_graph.nodes[i] = scout.knowledge_graph.nodes[j] => i = j)

----------------------------------------------------------------------------
(* C30 *)

\* C30: a cancel request made after the first event of the run (research_start
\* or research_resumed) was emitted is not erased: from a state in which the
\* first event is out and the cancel flag is clear, a flag that is set later
\* stays set.
C30_CancelNotErased ==
    []((out # <<>> /\ ~cancelFlag) => [](cancelFlag => []cancelFlag))

====
